---- MODULE Spec2Model ----
(***************************************************************************)
(* A model of HotelGen's simulation core: the phase pipeline (phase0 ..    *)
(* phase5), the day engine (process_day, checkin, checkout_finalize), the  *)
(* checkpoint boundary (export, import_pkl, the pkl_migrate tool), the     *)
(* allocator generate_state_distribution and generate_transaction.         *)
(*                                                                         *)
(* inst.state is a Python dict; the model keeps it as one function from    *)
(* key names to values, so that a key being absent is part of the state.   *)
(* Entity construction and the generators' library calls are taken to      *)
(* succeed; dictionary lookups, guards and control flow are as written.    *)
(* Dates are day offsets from the job's start date.  Money is in cents,    *)
(* tax amounts and totals before rounding in 1/10000 cent.  Populations    *)
(* (hotels, customers, rooms, days) are scaled down to the bounds below.   *)
(***************************************************************************)
EXTENDS Integers, Sequences, FiniteSets, TLC

\* ------------------------------------------------------------------ bounds
MaxProperties == 2
\* The customers of the job; in CapSpec, of its larger job.
MaxCustomers == 4
CapCustomers == 6
MaxDays == 2
OccupancyGrid == 2
\* generate_state_distribution: the largest count, the most reassignments,
\* and the largest drawn scaling factor in quarters.
MaxCount == 3
MaxReassignments == 2
MaxScaling == 4
\* generate_transaction: the longest stay.
MaxNights == 3
\* generate_hotel: the largest room count drawn, and the grid of the room
\* types' shares (a share is k / ProbGrid).
MaxRooms == 3
ProbGrid == 2
\* The load step: the most load_data calls, and skips, followed per loader.
MaxLoads == 2

\* ------------------------------------------------- the job and the catalogue
\* job['generation']['dates']['start'] is offset 0.
JobStart == 0
\* job['generation']['ratios'], in percent (the code's defaults).
RatioResorts == 5
RatioHotels == 55
RatioMotels == 40
\* job['generation']['giftshops'], in percent.
GiftshopChanceResorts == 100
GiftshopChanceHotels == 50

CorporationNames == {"Acme Group"}
RoomTypeOrder == <<"1kn", "2qn">>
RoomTypes == {RoomTypeOrder[i] : i \in 1..Len(RoomTypeOrder)}
Archetypes == {"business", "leisure"}
ArchetypeOrder == <<"business", "leisure">>

\* data.customer_archetypes: percentage (in percent), min_gap_days and the
\* stay_duration_weights keys: "3" is [a |-> 3, b |-> 4], "1-2" is [a |-> 1, b |-> 2].
customer_archetypes ==
    [business |-> [percentage |-> 50, min_gap_days |-> 0,
                   stay_keys |-> {[a |-> 1, b |-> 2]}],
     leisure  |-> [percentage |-> 50, min_gap_days |-> 1,
                   stay_keys |-> {[a |-> 3, b |-> 4]}]]

\* data.state_data: sales_tax and luxury_tax in basis points (700 is 7%).
state_data ==
    [MN |-> [sales_tax |-> 700, luxury_tax |-> 200],
     NV |-> [sales_tax |-> 700, luxury_tax |-> 0],
     OR |-> [sales_tax |-> 0,   luxury_tax |-> 200],
     AK |-> [sales_tax |-> 0,   luxury_tax |-> 0]]
StateCodes == DOMAIN state_data

\* ----------------------------------------------------------------- helpers
Has(st, k) == k \in DOMAIN st
Get(st, k, d) == IF k \in DOMAIN st THEN st[k] ELSE d
Put(st, k, v) == [x \in (DOMAIN st) \cup {k} |-> IF x = k THEN v ELSE st[x]]

RECURSIVE SumSeq(_)
SumSeq(s) == IF s = <<>> THEN 0 ELSE Head(s) + SumSeq(Tail(s))

RECURSIVE SumOver(_, _)
SumOver(f, S) ==
    IF S = {} THEN 0
    ELSE LET x == CHOOSE y \in S : TRUE IN f[x] + SumOver(f, S \ {x})

RECURSIVE FlattenSeq(_)
FlattenSeq(ss) == IF ss = <<>> THEN <<>> ELSE Head(ss) \o FlattenSeq(Tail(ss))

SeqFilter(s, Test(_)) == SelectSeq(s, Test)

Range(s) == {s[i] : i \in DOMAIN s}

Permutations_(s) ==
    {t \in [DOMAIN s -> Range(s)] :
        \A v \in Range(s) :
            Cardinality({i \in DOMAIN s : t[i] = v}) = Cardinality({i \in DOMAIN s : s[i] = v})}

\* Python's round() of the fraction num/den (den > 0, num >= 0): to the
\* nearest integer, a tie going to the even one.
RoundHalfEven(num, den) ==
    LET q == num \div den
        r == num % den
    IN  IF 2 * r < den THEN q
        ELSE IF 2 * r > den THEN q + 1
        ELSE IF q % 2 = 0 THEN q ELSE q + 1

\* ---------------------------------------------------------------- variables
VARIABLES
    state,          \* inst.state
    pc,             \* where the run stands: "idle", "phase4", "pop", "aborted"
    caller,         \* who called process_day: "api" or "phase4"
    p4_left,        \* phase4's remaining range() iterations
    day,            \* process_day's locals, meaningful while pc # "idle"
    error,          \* the exception that aborted the run, or ""
    completed,      \* history: the phases that have run to completion
    ckpt,           \* the checkpoint files, from file name to bundle
    run,            \* the run's inputs: the job's end date (an offset) and
                    \* customer count, main's --checkpoints and --input
    alloc,          \* a call of generate_state_distribution: its arguments,
                    \* its position and its locals
    txn,            \* a call of generate_transaction: its arguments and result
    gen,            \* a call of generate_hotel: its draws, its position and
                    \* its room distribution
    db              \* the load step: per loader, the load_data calls completed
                    \* and the loads skipped

simVars == <<state, pc, caller, p4_left, day, error, completed, ckpt, run, alloc, txn, gen, db>>

\* The calls followed on their own, outside a run.
callVars == <<alloc, txn, gen, db>>
\* The run's variables.
runVars == <<state, pc, caller, p4_left, day, error, completed, ckpt, run>>

\* job['generation']['dates']['end']
JobEndOffset == run.end

NoAlloc == [pc |-> "none"]
NoTxn == [pc |-> "none"]
NoGen == [pc |-> "none"]
NoDb == [pc |-> "none"]

NoDay == [pool |-> {}, desired |-> <<>>, hidx |-> 0, needed |-> 0,
          checkin_count |-> 0, checkout_count |-> 0, reactivate_count |-> 0,
          today_occupancy |-> 0]

\* HGSimulationState.__init__
NewState ==
    [hotels |-> <<>>, customers |-> <<>>, transactions |-> <<>>,
     events |-> <<>>, gen_params |-> <<>>]

last_phase(st) == Get(st, "last_phase", -1)

\* ------------------------------------------------------------------ phase 0
\* int(total * fraction) for the three categories, the remainder to resorts.
PropertyDistribution(total) ==
    LET resort_count == (total * RatioResorts) \div 100
        hotel_count == (total * RatioHotels) \div 100
        motel_count == (total * RatioMotels) \div 100
        short == total - (resort_count + hotel_count + motel_count)
    IN  [resorts |-> IF short > 0 THEN resort_count + short ELSE resort_count,
         hotels |-> hotel_count,
         motels |-> motel_count]

\* The state phase0 leaves: the corporation name and the property counts.
\* It does not write last_phase.
phase0_body(st, name, total) ==
    Put(Put(st, "corporation", name),
        "gen_params", Put(st.gen_params, "property_distribution", PropertyDistribution(total)))

\* The calls that are not process_day leave its locals and caller alone.
Frame == UNCHANGED <<caller, p4_left, day, run, callVars>>

\* A phase that finds its marker already set returns without a change.
Skip == UNCHANGED <<state, pc, error, completed, ckpt>>

Raise(err) ==
    /\ pc' = "aborted"
    /\ error' = err
    /\ UNCHANGED <<completed, ckpt>>

\* A dump that writes the bundle without its state.
pickle_dump_stateless(bundle) ==
    {<<k, bundle[k]>> : k \in (DOMAIN bundle) \ {"state"}}

\* pickle.dump of a bundle: the file holds the bundle's items, the state's
\* own items in place of the state.
pickle_dump(bundle) ==
    {<<k, IF k = "state" THEN {<<x, bundle.state[x]>> : x \in DOMAIN bundle.state}
                         ELSE bundle[k]>> : k \in DOMAIN bundle}

\* The dict a file's items make up.
from_items(items) ==
    [k \in {it[1] : it \in items} |-> (CHOOSE it \in items : it[1] = k)[2]]

\* pickle.load of a file.
pickle_load(file) ==
    LET top == from_items(file)
    IN  [k \in DOMAIN top |-> IF k = "state" THEN from_items(top[k]) ELSE top[k]]

\* HGSimulationState.import_pkl: the job and the state it takes from a file.
import_pkl(file) ==
    LET data == pickle_load(file)
    IN  [job |-> Get(data, "jobfile", <<>>), state |-> Get(data, "state", <<>>)]

\* HGSimulationState.export: the bundle written to a checkpoint file.  It also
\* carries the history of completed phases, which import_pkl restores.
export(st, hist) ==
    pickle_dump([params |-> st.gen_params,
                 jobfile |-> [end |-> run.end, customers |-> run.customers],
                 state |-> st, hist |-> hist])

\* main after a phase that returned True: with --checkpoints it exports the
\* state to that phase's file.
MainCheckpoint(name, st, hist) ==
    IF run.checkpoints
    THEN ckpt' = Put(ckpt, name, export(st, hist))
    ELSE ckpt' = ckpt

Phase0 ==
    /\ pc = "idle"
    /\ Frame
    /\ IF last_phase(state) >= 0
       THEN Skip
       ELSE /\ \E name \in CorporationNames, total \in 1..MaxProperties :
                  state' = phase0_body(state, name, total)
            /\ completed' = completed \cup {0}
            /\ MainCheckpoint("p00", state', completed')
            /\ UNCHANGED <<pc, error>>

\* ------------------------------------------------------------------ phase 1
\* generate_hotel: the hotels one call can return, from the (scaled) catalogue.
generate_hotel(kind) ==
    IF kind = "resort"
    THEN {[type |-> "Resort", state |-> "NV", resort_fee |-> 2500,
           rooms |-> [r \in RoomTypes |->
                        IF r = "1kn" THEN [count |-> 1, price |-> 15000]
                                     ELSE [count |-> 3, price |-> 9000]]]}
    ELSE IF kind = "hotel"
    THEN {[type |-> "Hotel", state |-> "MN", resort_fee |-> 0,
           rooms |-> [r \in RoomTypes |->
                        IF r = "1kn" THEN [count |-> 1, price |-> 12000]
                                     ELSE [count |-> 3, price |-> 8000]]]}
    ELSE {[type |-> "Motel", state |-> "OR", resort_fee |-> 0,
           rooms |-> [r \in RoomTypes |->
                        IF r = "1kn" THEN [count |-> 0, price |-> 6000]
                                     ELSE [count |-> 2, price |-> 5000]]]}

\* hotel.id = idx + 1 over the (shuffled) list.
AssignIds(s) == [i \in DOMAIN s |-> [x \in (DOMAIN s[i]) \cup {"id"} |->
                                        IF x = "id" THEN i ELSE s[i][x]]]

WithoutId(h) == [x \in (DOMAIN h) \ {"id"} |-> h[x]]

\* The hotel lists phase 1 can leave: the resorts, hotels and motels generated
\* after the ones already there, shuffled, then numbered from 1.
phase1_hotels(st) ==
    LET dist == st.gen_params.property_distribution
        old == [i \in DOMAIN st.hotels |-> WithoutId(st.hotels[i])]
    IN  UNION {{AssignIds(p) : p \in Permutations_(old \o rs \o hs \o ms)} :
                  rs \in [1..dist.resorts -> generate_hotel("resort")],
                  hs \in [1..dist.hotels -> generate_hotel("hotel")],
                  ms \in [1..dist.motels -> generate_hotel("motel")]}

Phase1 ==
    /\ pc = "idle"
    /\ Frame
    /\ IF last_phase(state) >= 1
       THEN Skip
       ELSE IF ~Has(state.gen_params, "property_distribution")
       THEN Raise("KeyError") /\ UNCHANGED state
       ELSE /\ \E hs \in phase1_hotels(state) :
                  state' = Put(Put(state, "hotels", hs), "last_phase", 1)
            /\ completed' = completed \cup {1}
            /\ UNCHANGED <<pc, error, ckpt>>

\* ------------------------------------------------------------------ phase 2
\* c_class_counts: int(round(p * total)) per archetype, p normalised.
customer_class_counts(total) ==
    LET total_probs == SumOver([a \in Archetypes |-> customer_archetypes[a].percentage],
                               Archetypes)
    IN  [a \in Archetypes |->
            RoundHalfEven(customer_archetypes[a].percentage * total, total_probs)]

\* The generation loop: each customer takes a type that still has count > 0,
\* any type once all are exhausted.
RECURSIVE TypeSeqs(_, _)
TypeSeqs(n, counts) ==
    IF n = 0 THEN {<<>>}
    ELSE LET avail == {t \in Archetypes : counts[t] > 0}
             picks == IF avail # {} THEN avail ELSE Archetypes
         IN  UNION {{<<t>> \o s : s \in TypeSeqs(n - 1, [counts EXCEPT ![t] = @ - 1])} :
                       t \in picks}

\* The customer lists phase 2 can leave: generated, shuffled, numbered from 1.
phase2_customers(st, total) ==
    LET old == [i \in DOMAIN st.customers |-> WithoutId(st.customers[i])]
    IN  UNION {{AssignIds(p) :
                  p \in Permutations_(old \o [i \in DOMAIN ts |-> [type |-> ts[i]]])} :
                  ts \in TypeSeqs(total, customer_class_counts(total))}

total_room_count(st) ==
    SumSeq([i \in DOMAIN st.hotels |->
              SumOver([r \in DOMAIN st.hotels[i].rooms |-> st.hotels[i].rooms[r].count],
                      DOMAIN st.hotels[i].rooms)])

phase2_body(st, total, cs) ==
    LET s1 == IF Has(st, "cache") THEN st ELSE Put(st, "cache", <<>>)
        s2 == Put(s1, "cache", Put(s1.cache, "customer_gen", TRUE))
        s3 == Put(s2, "customers", cs)
        gp == Put(Put(Put(s3.gen_params,
                  "customer_class_distribution", customer_class_counts(total)),
                  "total_rooms", total_room_count(s3)),
                  "total_customers", Len(cs))
    IN  Put(Put(s3, "last_phase", 2), "gen_params", gp)

Phase2 ==
    /\ pc = "idle"
    /\ Frame
    /\ IF last_phase(state) >= 2
       THEN Skip
       ELSE /\ \E cs \in phase2_customers(state, run.customers) :
                  state' = phase2_body(state, run.customers, cs)
            /\ completed' = completed \cup {2}
            /\ UNCHANGED <<pc, error, ckpt>>

\* ------------------------------------------------------------------ phase 3
phase3_body(st) ==
    LET hs == st.hotels
        cs == st.customers
        occupied_rooms == [id \in {hs[i].id : i \in DOMAIN hs} |->
                             [r \in DOMAIN hs[CHOOSE i \in DOMAIN hs : hs[i].id = id].rooms |-> <<>>]]
        occupied_customers == [a \in Archetypes |-> <<>>]
        c0 == Get(st, "cache", <<>>)
        by_arch == [a \in Archetypes |->
                      LET IsA(c) == c.type = a
                          sel == SelectSeq(cs, IsA)
                      IN  [i \in DOMAIN sel |-> sel[i].id]]
        c1 == Put(c0, "customers_by_archetype", by_arch)
        c2 == Put(c1, "customers_by_id",
                  [id \in {cs[i].id : i \in DOMAIN cs} |->
                      cs[CHOOSE i \in DOMAIN cs : cs[i].id = id]])
        c3 == Put(c2, "hotels_by_id",
                  [id \in {hs[i].id : i \in DOMAIN hs} |->
                      hs[CHOOSE i \in DOMAIN hs : hs[i].id = id]])
        s1 == Put(st, "occupied_rooms", occupied_rooms)
        s2 == Put(s1, "occupied_customers", occupied_customers)
        s3 == Put(s2, "cache", c3)
        s4 == Put(s3, "current_day", JobStart)
        s5 == Put(s4, "days_left", (JobEndOffset - JobStart) + 1)
    IN  Put(s5, "last_phase", 3)

Phase3 ==
    /\ pc = "idle"
    /\ Frame
    /\ IF last_phase(state) >= 3
       THEN Skip
       ELSE /\ state' = phase3_body(state)
            /\ completed' = completed \cup {3}
            /\ MainCheckpoint("p03", state', completed')
            /\ UNCHANGED <<pc, error>>

\* ------------------------------------------------- generate_transaction
\* A luxury tax levied on the running total, sales tax included.
luxury_tax_on_total(room_cost, overall_total) == overall_total \div 10000

\* The amount the luxury rate multiplies: room_cost, not the running total.
luxury_tax_base(room_cost, overall_total) == room_cost

\* The transaction of one stay.  room_cost is in cents; each tax amount and
\* the running total are in 1/10000 cent; the total is rounded to cents.
\* The payment's method and status, which nothing reads, are left out.
generate_transaction(st, hotel_id, customer, stay_length, room_type) ==
    LET this_hotel == st.cache.hotels_by_id[hotel_id]
        room_price == this_hotel.rooms[room_type].price
        room_only == room_price * stay_length
        has_fee == this_hotel.resort_fee > 0
        room_cost == IF has_fee THEN room_only + this_hotel.resort_fee * stay_length
                     ELSE room_only
        items1 == <<[description |-> "Room Charge", amount_per |-> room_price * 10000,
                     quantity |-> stay_length]>>
        items2 == IF has_fee
                  THEN Append(items1, [description |-> "Resort Fee",
                                       amount_per |-> this_hotel.resort_fee * 10000,
                                       quantity |-> stay_length])
                  ELSE items1
        taxes == Get(state_data, this_hotel.state, [sales_tax |-> 0, luxury_tax |-> 0])
        state_tax == taxes.sales_tax
        sales_amount == room_cost * state_tax
        items3 == IF state_tax > 0
                  THEN Append(items2, [description |-> "Sales Tax",
                                       amount_per |-> sales_amount, quantity |-> 1])
                  ELSE items2
        total3 == room_cost * 10000 + (IF state_tax > 0 THEN sales_amount ELSE 0)
        luxury_tax == taxes.luxury_tax
        luxury_applies == room_cost > 10000 /\ luxury_tax > 0
        luxury_amount == luxury_tax_base(room_cost, total3) * luxury_tax
        items4 == IF luxury_applies
                  THEN Append(items3, [description |-> "Luxury Tax",
                                       amount_per |-> luxury_amount, quantity |-> 1])
                  ELSE items3
        total4 == total3 + (IF luxury_applies THEN luxury_amount ELSE 0)
    IN  [customer_id |-> customer,
         hotel_id |-> hotel_id,
         check_in_date |-> st.current_day - stay_length,
         check_out_date |-> st.current_day,
         line_items |-> items4,
         total |-> RoundHalfEven(total4, 10000)]

\* ------------------------------------------------------ checkin / checkout
get_datetime_by_day_num(day_num) == JobStart + day_num

\* A check-in that files no cooldown entry.
checkin_no_cooldown(st, customer_id, hotel_id, room_type, stay_length) ==
    LET s1 == Put(st, "events",
                  Append(st.events, [event |-> "checkin", customer_id |-> customer_id,
                                     property_id |-> hotel_id,
                                     checkin_date |-> st.current_day,
                                     checkout_date |-> st.current_day + stay_length,
                                     room_type |-> room_type]))
    IN  Put(s1, "occupied_rooms",
            [s1.occupied_rooms EXCEPT ![hotel_id][room_type] =
                Append(@, <<customer_id, st.current_day_num, stay_length, room_type>>)])

\* A booking is <<customer_id, day number of the check-in, stay_length, room_type>>.
checkin(st, customer_id, hotel_id, room_type, stay_length) ==
    LET checkin_event == [event |-> "checkin", customer_id |-> customer_id,
                          property_id |-> hotel_id,
                          checkin_date |-> st.current_day,
                          checkout_date |-> st.current_day + stay_length,
                          room_type |-> room_type]
        booking == <<customer_id, st.current_day_num, stay_length, room_type>>
        ctype == st.cache.customers_by_id[customer_id].type
        cooldown == <<customer_id, hotel_id,
                      st.current_day + stay_length + customer_archetypes[ctype].min_gap_days>>
        s1 == Put(st, "events", Append(st.events, checkin_event))
        s2 == Put(s1, "occupied_rooms",
                  [s1.occupied_rooms EXCEPT ![hotel_id][room_type] = Append(@, booking)])
    IN  Put(s2, "occupied_customers",
            [s2.occupied_customers EXCEPT ![ctype] = Append(@, cooldown)])

\* A checkout record that appends the event and no transaction.
_checkout_record_event_only(st, hotel_id, booking, skipped_days) ==
    Put(st, "events",
        Append(st.events, [event |-> "checkout", property_id |-> hotel_id,
                           customer_id |-> booking[1],
                           checkout_date |-> st.current_day,
                           room_type |-> booking[4]]))

_checkout_record(st, hotel_id, booking, skipped_days) ==
    LET checkout_event == [event |-> "checkout", property_id |-> hotel_id,
                           customer_id |-> booking[1],
                           checkout_date |-> st.current_day,
                           room_type |-> booking[4]]
        s1 == Put(st, "events", Append(st.events, checkout_event))
        trans == generate_transaction(s1, hotel_id, booking[1],
                                      booking[3] - skipped_days, booking[4])
    IN  Put(s1, "transactions", Append(s1.transactions, trans))

checkout_finalize(st, hotel_id, booking) ==
    LET skipped_days == IF st.current_day < JobStart + booking[3]
                        THEN booking[2] - st.current_day_num
                        ELSE 0
    IN  _checkout_record(st, hotel_id, booking, skipped_days)

\* The sweep's test for a booking leaving today.
is_due(st, b) == get_datetime_by_day_num(b[2]) <= st.current_day

RECURSIVE finalize_all(_, _, _)
finalize_all(st, hotel_id, bookings) ==
    IF bookings = <<>> THEN st
    ELSE finalize_all(checkout_finalize(st, hotel_id, Head(bookings)), hotel_id, Tail(bookings))

\* Step 1 for one (hotel, room type): the due bookings leave the list, then
\* each is finalized.
sweep_one(st, hotel_id, rt) ==
    LET old_bookings == st.occupied_rooms[hotel_id][rt]
        Due(b) == is_due(st, b)
        Stays(b) == ~is_due(st, b)
        to_checkout == SelectSeq(old_bookings, Due)
        s1 == Put(st, "occupied_rooms",
                  [st.occupied_rooms EXCEPT ![hotel_id][rt] = SelectSeq(old_bookings, Stays)])
    IN  finalize_all(s1, hotel_id, to_checkout)

\* The (hotel, room type) pairs in the dicts' iteration order.
sweep_order(st) ==
    LET ids == [i \in DOMAIN st.hotels |-> st.hotels[i].id]
        known == SelectSeq(ids, LAMBDA id : id \in DOMAIN st.occupied_rooms)
    IN  FlattenSeq([i \in DOMAIN known |->
                      LET rts == SelectSeq(RoomTypeOrder,
                                           LAMBDA r : r \in DOMAIN st.occupied_rooms[known[i]])
                      IN  [j \in DOMAIN rts |-> <<known[i], rts[j]>>]])

RECURSIVE sweep(_, _)
sweep(st, pairs) ==
    IF pairs = <<>> THEN st
    ELSE sweep(sweep_one(st, Head(pairs)[1], Head(pairs)[2]), Tail(pairs))

\* Step 2: the cooldown entries whose date has come are dropped.
expire_cooldowns(st) ==
    Put(st, "occupied_customers",
        [a \in DOMAIN st.occupied_customers |->
            SelectSeq(st.occupied_customers[a], LAMBDA occ : occ[3] > st.current_day)])

cooldown_count(st) ==
    SumOver([a \in DOMAIN st.occupied_customers |-> Len(st.occupied_customers[a])],
            DOMAIN st.occupied_customers)

\* ----------------------------------------------------- select_room_type
\* A selection that leaves the full room types in.
select_room_type_any(st, hotel_id) ==
    LET hotel == st.cache.hotels_by_id[hotel_id]
    IN  DOMAIN hotel.rooms

\* The room types select_room_type can return for the hotel; {} is None.
select_room_type(st, hotel_id) ==
    LET hotel == st.cache.hotels_by_id[hotel_id]
        room_type_counts == [r \in DOMAIN hotel.rooms |->
                               hotel.rooms[r].count - Len(st.occupied_rooms[hotel_id][r])]
    IN  IF SumOver(room_type_counts, DOMAIN room_type_counts) <= 0 THEN {}
        ELSE {r \in DOMAIN room_type_counts : room_type_counts[r] > 0}

\* generate_stay_length: a key "a" gives a, a key "a-b" gives randrange(a, b).
generate_stay_length(stay_keys) == UNION {k.a .. (k.b - 1) : k \in stay_keys}

\* ----------------------------------------------- get_customer_distribution
\* Counts are kept times 100 until they are rounded.
RECURSIVE add_loop(_, _)
add_loop(e, target) ==
    IF SumOver(e, DOMAIN e) >= target THEN {e}
    ELSE UNION {add_loop([e EXCEPT ![a] = @ + 100], target) : a \in DOMAIN e}

RECURSIVE sub_loop(_, _)
sub_loop(e, target) ==
    IF SumOver(e, DOMAIN e) <= target THEN {e}
    ELSE UNION {sub_loop([e EXCEPT ![a] = @ - 100], target) : a \in {x \in DOMAIN e : e[x] > 0}}

get_customer_distribution(desired_count) ==
    LET expected == [a \in Archetypes |-> customer_archetypes[a].percentage * desired_count]
        grown == add_loop(expected, desired_count * 100)
        cut == UNION {sub_loop(e, desired_count * 100) : e \in grown}
    IN  {[a \in Archetypes |-> RoundHalfEven(e[a], 100)] : e \in cut}

\* ------------------------------------------------------------ process_day
total_rooms_of(hotel) ==
    SumOver([r \in DOMAIN hotel.rooms |-> hotel.rooms[r].count], DOMAIN hotel.rooms)

\* Step 4: int(round(total rooms * today_occupancy)), the occupancy being
\* p / (2 * OccupancyGrid), a point of the clamp's range [0, 0.5].
hotel_desired_occupancy(st, p) ==
    [id \in {st.hotels[i].id : i \in DOMAIN st.hotels} |->
        RoundHalfEven(total_rooms_of(st.hotels[CHOOSE i \in DOMAIN st.hotels :
                                                   st.hotels[i].id = id]) * p,
                      2 * OccupancyGrid)]

all_checked_in_ids(st) ==
    {st.occupied_rooms[hid][rt][i][1] :
        <<hid, rt, i>> \in {t \in (DOMAIN st.occupied_rooms) \X RoomTypes \X (1..MaxCustomers + 1) :
                               /\ t[2] \in DOMAIN st.occupied_rooms[t[1]]
                               /\ t[3] \in DOMAIN st.occupied_rooms[t[1]][t[2]]}}

\* An eligibility that leaves the customers in cooldown in.
eligible_customers_cooling(st, ct) ==
    LET in_grp == st.cache.customers_by_archetype[ct]
    IN  {in_grp[i] : i \in DOMAIN in_grp} \ all_checked_in_ids(st)

\* The customers of an archetype that are neither checked in nor in that
\* archetype's cooldown list.
eligible_customers(st, ct) ==
    LET in_grp == st.cache.customers_by_archetype[ct]
        occupied_customer_ids == {st.occupied_customers[ct][i][1] :
                                     i \in DOMAIN st.occupied_customers[ct]}
    IN  {in_grp[i] : i \in DOMAIN in_grp} \ (all_checked_in_ids(st) \cup occupied_customer_ids)

\* The number of customers drawn for an archetype: the quota, or 20% of the
\* eligible customers when those are no more than the quota.
draw_count(n_eligible, quota) ==
    IF n_eligible <= quota THEN RoundHalfEven(n_eligible * 2, 10) ELSE quota

\* r.sample per archetype, the samples collapsed into one pool.
draw_pools(st, customer_counts) ==
    LET elig == [ct \in Archetypes |-> eligible_customers(st, ct)]
        picks == {f \in [Archetypes -> SUBSET (UNION {elig[ct] : ct \in Archetypes})] :
                     \A ct \in Archetypes :
                         /\ f[ct] \subseteq elig[ct]
                         /\ Cardinality(f[ct]) =
                                draw_count(Cardinality(elig[ct]), customer_counts[ct])}
    IN  {UNION {f[ct] : ct \in Archetypes} : f \in picks}

currently_checked_in(st, hotel_id) ==
    SumOver([r \in DOMAIN st.occupied_rooms[hotel_id] |-> Len(st.occupied_rooms[hotel_id][r])],
            DOMAIN st.occupied_rooms[hotel_id])

\* needed with one room more than the desired occupancy asks for.
needed_at_plus(st, desired, hotel_id) ==
    desired[hotel_id] + 1 - currently_checked_in(st, hotel_id)

needed_at(st, desired, hotel_id) == desired[hotel_id] - currently_checked_in(st, hotel_id)

\* The next hotel, from index `from` on, that the check-in loop serves: one
\* with desired occupancy > 0 and needed > 0; 0 when there is none.
next_hotel(st, desired, from) ==
    LET serves == {i \in from..Len(st.hotels) :
                      /\ desired[st.hotels[i].id] > 0
                      /\ needed_at(st, desired, st.hotels[i].id) > 0}
    IN  IF serves = {} THEN 0 ELSE CHOOSE i \in serves : \A j \in serves : i <= j

\* A loop body that leaves days_left as it is.
phase4_after_day_keep(st) == st

\* phase4's loop body after the call: inst.state['days_left'] -= 1.
phase4_after_day(st) == Put(st, "days_left", st.days_left - 1)

\* process_day returns to its caller; phase4's loop then decrements days_left.
Return(st, who) ==
    /\ day' = NoDay
    /\ caller' = ""
    /\ IF who = "phase4"
       THEN /\ state' = phase4_after_day(st)
            /\ p4_left' = p4_left - 1
            /\ pc' = "phase4"
       ELSE /\ state' = st
            /\ p4_left' = p4_left
            /\ pc' = "idle"

day_summary(st, d) ==
    [day_num |-> st.current_day_num, date |-> st.current_day,
     checkins |-> d.checkin_count, checkouts |-> d.checkout_count,
     reactivations |-> d.reactivate_count, occupancy |-> d.today_occupancy]

\* The day's end: the summary is appended to day_log.
Finish(st, d, who) ==
    Return(Put(st, "day_log", Append(Get(st, "day_log", <<>>), day_summary(st, d))), who)

\* After one turn of a hotel's range(needed) loop: the same hotel again, the
\* next hotel that needs customers, or the end of the day.
Continue(st, d, who) ==
    IF d.needed > 0
    THEN /\ state' = st /\ day' = d /\ pc' = "pop" /\ caller' = who /\ p4_left' = p4_left
    ELSE LET h == next_hotel(st, d.desired, d.hidx + 1)
         IN  IF h = 0 THEN Finish(st, d, who)
             ELSE /\ state' = st
                  /\ day' = [d EXCEPT !.hidx = h,
                                      !.needed = needed_at(st, d.desired, st.hotels[h].id)]
                  /\ pc' = "pop" /\ caller' = who /\ p4_left' = p4_left

\* Steps 1 and 2 on the advanced day.
day_open(st) ==
    LET s0 == Put(st, "current_day_num",
                  IF Has(st, "current_day_num") THEN st.current_day_num + 1 ELSE 1)
        s1 == Put(s0, "current_day", s0.current_day + 1)
        s2 == sweep(s1, sweep_order(s1))
    IN  expire_cooldowns(s2)

\* A refusal that comes after the day number was advanced.
process_day_refused_late(st) ==
    Put(st, "current_day_num",
        IF Has(st, "current_day_num") THEN st.current_day_num + 1 ELSE 1)

\* The state a call refused by the phase guard leaves: the guard returns
\* before anything is written.
process_day_refused(st) == st

\* process_day up to the check-in loop: the guard, the checkout sweep, the
\* cooldown expiry, today's occupancy, the quotas and the customer draw.
ProcessDay(who) ==
    /\ UNCHANGED <<completed, ckpt, run, callVars>>
    /\ IF last_phase(state) < 3
       THEN Return(process_day_refused(state), who) /\ UNCHANGED error
       ELSE LET s3 == day_open(state)
                swept == Len(s3.transactions) - Len(state.transactions)
                expired == (cooldown_count(state) + 0) - cooldown_count(s3)
            IN  \E p \in 0..OccupancyGrid :
                  LET desired == hotel_desired_occupancy(s3, p)
                      total_customers_needed == SumOver(desired, DOMAIN desired)
                  IN  \E customer_counts \in get_customer_distribution(total_customers_needed) :
                        IF total_customers_needed <= 0
                        THEN Return(s3, who) /\ UNCHANGED error
                        ELSE IF \E ct \in Archetypes :
                                   draw_count(Cardinality(eligible_customers(s3, ct)),
                                              customer_counts[ct]) < 0
                        THEN /\ pc' = "aborted" /\ error' = "ValueError" /\ state' = s3
                             /\ UNCHANGED <<day, caller, p4_left>>
                        ELSE \E pool \in draw_pools(s3, customer_counts) :
                               LET d == [pool |-> pool, desired |-> desired, hidx |-> 0,
                                         needed |-> 0, checkin_count |-> 0,
                                         checkout_count |-> swept,
                                         reactivate_count |-> expired,
                                         today_occupancy |-> p]
                               IN  Continue(s3, d, who) /\ UNCHANGED error

\* A pop that leaves the id in the list.
pool_pop_keep(pool, this_cid) == pool

\* all_customer_ids.pop(): the popped id leaves the list.
pool_pop(pool, this_cid) == pool \ {this_cid}

\* One turn of the range(needed) loop at the hotel being served: pop a
\* customer, draw the stay length, select a room type, check in.
PopStep ==
    /\ pc = "pop"
    /\ UNCHANGED <<completed, ckpt, error, run, callVars>>
    /\ LET hotel == state.hotels[day.hidx].id
           d1 == [day EXCEPT !.needed = @ - 1]
       IN  IF day.pool = {}
           THEN Continue(state, d1, caller)
           ELSE \E this_cid \in day.pool :
                  LET d2 == [d1 EXCEPT !.pool = pool_pop(@, this_cid)]
                      ctype == state.cache.customers_by_id[this_cid].type
                      rts == select_room_type(state, hotel)
                  IN  \E stay_length \in generate_stay_length(customer_archetypes[ctype].stay_keys) :
                        IF rts = {}
                        THEN Continue(state, d2, caller)
                        ELSE \E rt \in rts :
                               Continue(checkin(state, this_cid, hotel, rt, stay_length),
                                        [d2 EXCEPT !.checkin_count = @ + 1], caller)

\* process_day called directly, while the days simulated and the days phase
\* 4 has yet to simulate stay within MaxDays.
ApiProcessDay ==
    /\ pc = "idle"
    /\ Get(state, "current_day_num", 0) + Get(state, "days_left", 0) < MaxDays
    /\ ProcessDay("api")

\* ------------------------------------------------------------------ phase 4
Phase4 ==
    /\ pc = "idle"
    /\ UNCHANGED <<caller, day, run, callVars>>
    /\ IF last_phase(state) >= 4
       THEN Skip /\ UNCHANGED p4_left
       ELSE IF ~Has(state, "days_left")
       THEN Raise("KeyError") /\ UNCHANGED <<state, p4_left>>
       ELSE /\ p4_left' = state.days_left
            /\ pc' = "phase4"
            /\ UNCHANGED <<state, error, completed, ckpt>>

Phase4Day ==
    /\ pc = "phase4"
    /\ p4_left > 0
    /\ ProcessDay("phase4")

Phase4End ==
    /\ pc = "phase4"
    /\ p4_left = 0
    /\ state' = Put(state, "last_phase", 4)
    /\ pc' = "idle"
    /\ completed' = completed \cup {4}
    /\ MainCheckpoint("p04", state', completed')
    /\ UNCHANGED <<caller, p4_left, day, error, run, callVars>>

\* ------------------------------------------------------------------ phase 5
hotels_of_type(st, type) == SelectSeq(st.hotels, LAMBDA h : h.type = type)

\* random.sample(list, k) followed by the shuffle: the k-element lists without
\* repetition.
samples(list, k) ==
    {t \in [1..k -> Range(list)] : \A i, j \in 1..k : i # j => t[i] # t[j]}

\* The shops of the hotels, in the order given: each takes the next id and
\* brings one product; it opens within the first eighth of the date range's
\* first half.
RECURSIVE add_giftshops(_, _)
add_giftshops(st, hs) ==
    IF hs = <<>> THEN st
    ELSE LET shop == [id |-> Len(st.giftshops), located_at |-> Head(hs).id,
                      date_opened |-> JobStart + (((JobEndOffset - JobStart) \div 2) \div 8)]
             product == [id |-> Len(st.products), sold_at |-> shop.id]
             s1 == Put(st, "giftshops", Append(st.giftshops, shop))
         IN  add_giftshops(Put(s1, "products", Append(s1.products, product)), Tail(hs))

\* The checkin events at a hotel with a shop that was open by then.
retail_candidates(st, all_active) ==
    LET hotel_ids == {all_active[i].id : i \in DOMAIN all_active}
    IN  SelectSeq(st.events,
                  LAMBDA c : /\ c.event = "checkin"
                             /\ c.property_id \in hotel_ids
                             /\ \E i \in DOMAIN st.giftshops :
                                   /\ st.giftshops[i].located_at = c.property_id
                                   /\ c.checkin_date >= st.giftshops[i].date_opened)

Phase5 ==
    /\ pc = "idle"
    /\ Frame
    /\ IF last_phase(state) >= 5
       THEN Skip
       ELSE LET all_resorts == hotels_of_type(state, "Resort")
                all_hotels == hotels_of_type(state, "Hotel")
                resort_count == (Len(all_resorts) * GiftshopChanceResorts) \div 100
                hotel_count == (Len(all_hotels) * GiftshopChanceHotels) \div 100
            IN  IF Len(all_resorts) = 0 \/ Len(all_hotels) = 0
                THEN Skip
                ELSE IF ~Has(state, "giftshops") \/ ~Has(state, "products")
                THEN Raise("KeyError") /\ UNCHANGED state
                ELSE \E active_resorts \in samples(all_resorts, resort_count),
                        active_hotels \in samples(all_hotels, hotel_count) :
                       LET s1 == add_giftshops(state, active_resorts \o active_hotels)
                           candidates == retail_candidates(s1, active_resorts \o active_hotels)
                       IN  IF Len(candidates) \div 3 > 0
                           THEN \* generate_retail_transaction takes no hotel_id or date
                                Raise("TypeError") /\ state' = s1
                           ELSE /\ state' = Put(Put(s1, "retail_transactions",
                                                    Get(s1, "retail_transactions", <<>>)),
                                                "last_phase", 5)
                                /\ completed' = completed \cup {5}
                                /\ MainCheckpoint("p05", state', completed')
                                /\ UNCHANGED <<pc, error>>

\* ------------------------------------------------------- the checkpoint files
\* The state pkl_migrate writes for a bundle's state.
migrate_state(st) ==
    LET s1 == Put(st, "giftshops", Get(st, "giftshops", <<>>))
        s2 == Put(s1, "products", Get(s1, "products", <<>>))
        c1 == Put(s2.cache, "customers_by_id", Get(s2.cache, "customers_by_id", <<>>))
        c2 == Put(c1, "hotels_by_id", Get(c1, "hotels_by_id", <<>>))
    IN  Put(Put(s2, "cache", c2), "data_version", 1)

\* The pkl_migrate tool run on file i.  It reads data_version at the top of
\* the bundle and writes it into the bundle's state; a state without a cache
\* ends the tool with a KeyError and no output.
Migrate(i) ==
    /\ pc \in {"idle", "aborted"}
    /\ LET source_obj == pickle_load(ckpt[i])
       IN  /\ Get(source_obj, "data_version", 0) < 1
           /\ Has(source_obj, "state")
           /\ Has(source_obj.state, "cache")
           /\ ckpt' = [ckpt EXCEPT ![i] =
                         pickle_dump([source_obj EXCEPT !.state = migrate_state(@)])]
    /\ UNCHANGED <<state, pc, caller, p4_left, day, error, completed, run, callVars>>

\* main's test of the imported state: its data version, 0 when the state has
\* none, is at least 1.
resume_accepts(st) == Get(st, "data_version", 0) >= 1

\* main started with --input i: import_pkl into a fresh object, then the test
\* of the data version; a state that fails it ends the run ("Input file is too
\* old"), after which main can be started again.
ImportPkl(i) ==
    /\ pc \in {"idle", "aborted"}
    /\ run.input = "" \/ error = "too old"
    /\ Has(import_pkl(ckpt[i]).job, "end")
    /\ run' = [run EXCEPT !.input = i,
                          !.end = import_pkl(ckpt[i]).job.end,
                          !.customers = import_pkl(ckpt[i]).job.customers]
    /\ state' = import_pkl(ckpt[i]).state
    /\ completed' = pickle_load(ckpt[i]).hist
    /\ IF resume_accepts(state')
       THEN pc' = "idle" /\ error' = ""
       ELSE pc' = "aborted" /\ error' = "too old"
    /\ UNCHANGED <<caller, p4_left, day, ckpt, callVars>>

\* A fresh HGSimulationState in a run of main without --checkpoints.
Init ==
    /\ state = NewState
    /\ pc = "idle"
    /\ caller = ""
    /\ p4_left = 0
    /\ day = NoDay
    /\ error = ""
    /\ completed = {}
    /\ ckpt = <<>>
    /\ run \in [end : 0..(MaxDays - 1), customers : {MaxCustomers},
                checkpoints : {FALSE}, input : {""}]
    /\ alloc = NoAlloc
    /\ txn = NoTxn
    /\ gen = NoGen
    /\ db = NoDb

Next ==
    \/ Phase0
    \/ Phase1
    \/ Phase2
    \/ Phase3
    \/ Phase4
    \/ Phase4Day
    \/ Phase4End
    \/ ApiProcessDay
    \/ PopStep
    \/ Phase5

Spec == Init /\ [][Next]_simVars

\* main's run alone: the phases, with process_day called by phase 4 only.
MainNext ==
    \/ Phase0
    \/ Phase1
    \/ Phase2
    \/ Phase3
    \/ Phase4
    \/ Phase4Day
    \/ Phase4End
    \/ PopStep
    \/ Phase5

MainSpec == Init /\ [][MainNext]_simVars

\* main's run over a job of one day whose customers outnumber the rooms the
\* hotels may fill, so that the desired occupancy is what limits check-ins.
CapInit ==
    /\ state = NewState
    /\ pc = "idle"
    /\ caller = ""
    /\ p4_left = 0
    /\ day = NoDay
    /\ error = ""
    /\ completed = {}
    /\ ckpt = <<>>
    /\ run = [end |-> 0, customers |-> CapCustomers, checkpoints |-> FALSE, input |-> ""]
    /\ alloc = NoAlloc
    /\ txn = NoTxn
    /\ gen = NoGen
    /\ db = NoDb

CapSpec == CapInit /\ [][MainNext]_simVars

\* ------------------------------------------------- checkout, called directly
\* list.remove(x): the first occurrence leaves the list.
RECURSIVE list_remove(_, _)
list_remove(list, x) ==
    IF list = <<>> THEN <<>>
    ELSE IF Head(list) = x THEN Tail(list)
    ELSE <<Head(list)>> \o list_remove(Tail(list), x)

\* Whether checkout(hotel_id, booking, force) warns and returns.
checkout_refused(st, booking, force) ==
    st.current_day < get_datetime_by_day_num(booking[2]) /\ ~force

checkout(st, hotel_id, booking, force) ==
    IF checkout_refused(st, booking, force) THEN st
    ELSE LET skipped_days == IF st.current_day < JobStart + booking[3]
                             THEN booking[2] - st.current_day_num
                             ELSE 0
             s1 == Put(st, "occupied_rooms",
                       [st.occupied_rooms EXCEPT ![hotel_id][booking[4]] =
                                                     list_remove(@, booking)])
         IN  _checkout_record(s1, hotel_id, booking, skipped_days)

\* inst.checkout(hotel_id, booking, force) on a booking found in occupied_rooms.
CheckoutCall(hotel_id, booking, force) ==
    /\ pc = "idle"
    /\ Has(state, "occupied_rooms")
    /\ hotel_id \in DOMAIN state.occupied_rooms
    /\ booking \in Range(state.occupied_rooms[hotel_id][booking[4]])
    /\ state' = checkout(state, hotel_id, booking, force)
    /\ UNCHANGED <<pc, caller, p4_left, day, error, completed, ckpt, run, callVars>>

ApiCheckout ==
    /\ pc = "idle"
    /\ Has(state, "occupied_rooms")
    /\ \E hotel_id \in DOMAIN state.occupied_rooms :
         \E rt \in DOMAIN state.occupied_rooms[hotel_id] :
           \E booking \in Range(state.occupied_rooms[hotel_id][rt]) :
             \E force \in BOOLEAN : CheckoutCall(hotel_id, booking, force)

\* The simulation driven through its methods: the run's steps and checkout.
ApiNext ==
    \/ Next
    \/ ApiCheckout

ApiSpec == Init /\ [][ApiNext]_simVars

\* ------------------------------------------- runs that write checkpoints
\* A run of main with --checkpoints over a job of one day and one customer,
\* the pkl_migrate tool and the resume path.
CkptInit ==
    /\ state = NewState
    /\ pc = "idle"
    /\ caller = ""
    /\ p4_left = 0
    /\ day = NoDay
    /\ error = ""
    /\ completed = {}
    /\ ckpt = <<>>
    /\ run = [end |-> 0, customers |-> 1, checkpoints |-> TRUE, input |-> ""]
    /\ alloc = NoAlloc
    /\ txn = NoTxn
    /\ gen = NoGen
    /\ db = NoDb

CkptNext ==
    \/ Phase0
    \/ Phase1
    \/ Phase2
    \/ Phase3
    \/ Phase4
    \/ Phase4Day
    \/ Phase4End
    \/ PopStep
    \/ Phase5
    \/ \E i \in DOMAIN ckpt : Migrate(i)
    \/ \E i \in DOMAIN ckpt : ImportPkl(i)

CkptSpec == CkptInit /\ [][CkptNext]_simVars

\* ------------------------------------------- generate_state_distribution
\* data.state_population_ratios, in whole units.
state_population_ratios == [MN |-> 2, NV |-> 1, AK |-> 1]
AllocStates == DOMAIN state_population_ratios

all_multipliers == SumOver(state_population_ratios, AllocStates)

distribution_sum(d) == SumOver(d, DOMAIN d)

\* Step 3: int(round(multiplier * scaling_factor)) per state.  With sd <= 0
\* the factor is count / all_multipliers; with sd > 0 each state draws its own
\* factor, clamped below at 0, here k / all_multipliers for k in 0..MaxScaling.
baselines(count, sd_positive) ==
    IF ~sd_positive
    THEN {[st \in AllocStates |->
             RoundHalfEven(state_population_ratios[st] * count, all_multipliers)]}
    ELSE {[st \in AllocStates |->
             RoundHalfEven(state_population_ratios[st] * k[st], all_multipliers)] :
             k \in [AllocStates -> 0..MaxScaling]}

\* A subtraction that takes from any state, empty or not.
sub_from_any(d) == DOMAIN d

\* Step 4.2 changes the chosen state only if its count is above 0.
sub_from(d) == {st \in DOMAIN d : d[st] > 0}

\* The call is made: step 3 leaves the baseline distribution.
AllocBaseline ==
    /\ alloc.pc = "call"
    /\ \E d \in baselines(alloc.count, alloc.sd_positive) :
          alloc' = [alloc EXCEPT !.pc = "add", !.distribution = d, !.baseline = d]
    /\ UNCHANGED <<runVars, txn, gen, db>>

\* Step 4.1, one turn: a random state gains one.
AllocAdd ==
    /\ alloc.pc = "add"
    /\ distribution_sum(alloc.distribution) < alloc.count
    /\ \E st \in AllocStates :
          alloc' = [alloc EXCEPT !.distribution[st] = @ + 1, !.pick = <<st>>]
    /\ UNCHANGED <<runVars, txn, gen, db>>

AllocAddEnd ==
    /\ alloc.pc = "add"
    /\ distribution_sum(alloc.distribution) >= alloc.count
    /\ alloc' = [alloc EXCEPT !.pc = "sub", !.pick = <<>>]
    /\ UNCHANGED <<runVars, txn, gen, db>>

\* Step 4.2, one turn that chose a state it can take from.
AllocSub ==
    /\ alloc.pc = "sub"
    /\ distribution_sum(alloc.distribution) > alloc.count
    /\ \E st \in sub_from(alloc.distribution) :
          alloc' = [alloc EXCEPT !.distribution[st] = @ - 1, !.pick = <<st>>]
    /\ UNCHANGED <<runVars, txn, gen, db>>

\* Step 4.2, one turn that chose an empty state: nothing but the choice changes.
AllocSubMiss ==
    /\ alloc.pc = "sub"
    /\ distribution_sum(alloc.distribution) > alloc.count
    /\ \E st \in AllocStates \ sub_from(alloc.distribution) :
          alloc' = [alloc EXCEPT !.pick = <<st>>]
    /\ UNCHANGED <<runVars, txn, gen, db>>

AllocSubEnd ==
    /\ alloc.pc = "sub"
    /\ distribution_sum(alloc.distribution) <= alloc.count
    /\ alloc' = [alloc EXCEPT !.pc = "reassign", !.pick = <<>>]
    /\ UNCHANGED <<runVars, txn, gen, db>>

\* Step 5, one turn of the inner loop whose sample has a "from" state with
\* count > 0: one unit moves and the reassignment is done.
AllocMove ==
    /\ alloc.pc = "reassign"
    /\ alloc.left > 0
    /\ \E state_from, state_to \in AllocStates :
          /\ state_from # state_to
          /\ alloc.distribution[state_from] > 0
          /\ alloc' = [alloc EXCEPT !.distribution[state_from] = @ - 1,
                                    !.distribution[state_to] = @ + 1,
                                    !.left = @ - 1,
                                    !.pick = <<state_from, state_to>>]
    /\ UNCHANGED <<runVars, txn, gen, db>>

\* Step 5, one turn whose "from" state is empty: the loop tries again.
AllocRetry ==
    /\ alloc.pc = "reassign"
    /\ alloc.left > 0
    /\ \E state_from, state_to \in AllocStates :
          /\ state_from # state_to
          /\ alloc.distribution[state_from] <= 0
          /\ alloc' = [alloc EXCEPT !.pick = <<state_from, state_to>>]
    /\ UNCHANGED <<runVars, txn, gen, db>>

AllocReturn ==
    /\ alloc.pc = "reassign"
    /\ alloc.left = 0
    /\ alloc' = [alloc EXCEPT !.pc = "done", !.pick = <<>>]
    /\ UNCHANGED <<runVars, txn, gen, db>>

\* A call generate_state_distribution(count, sd, reassignments).
AllocInit ==
    /\ state = NewState
    /\ pc = "idle"
    /\ caller = ""
    /\ p4_left = 0
    /\ day = NoDay
    /\ error = ""
    /\ completed = {}
    /\ ckpt = <<>>
    /\ run = [end |-> 0, customers |-> 0, checkpoints |-> FALSE, input |-> ""]
    /\ txn = NoTxn
    /\ gen = NoGen
    /\ db = NoDb
    /\ alloc \in [pc : {"call"}, count : 0..MaxCount, sd_positive : BOOLEAN,
                  reassignments : 0..MaxReassignments,
                  left : 0..MaxReassignments,
                  distribution : {[st \in AllocStates |-> 0]},
                  baseline : {[st \in AllocStates |-> 0]},
                  pick : {<<>>}]
    /\ alloc.left = alloc.reassignments

AllocNext ==
    \/ AllocBaseline
    \/ AllocAdd
    \/ AllocAddEnd
    \/ AllocSub
    \/ AllocSubMiss
    \/ AllocSubEnd
    \/ AllocMove
    \/ AllocRetry
    \/ AllocReturn

\* The random choices are fair: a turn that can go on does, and an outcome
\* that stays possible is drawn in the end.
AllocFairness ==
    /\ WF_simVars(AllocNext)
    /\ SF_simVars(AllocSub)
    /\ SF_simVars(AllocMove)

AllocSpec == AllocInit /\ [][AllocNext]_simVars /\ AllocFairness

\* ---------------------------------------------- generate_transaction alone
TxnPrices == {5000, 9999, 15000}
TxnFees == {0, 2500}

\* The simulation state a call reads: the hotel in the cache and the day.
txn_state(t) ==
    [cache |-> [hotels_by_id |->
                  [id \in {1} |-> [id |-> 1, type |-> "Hotel", state |-> t.state,
                                   resort_fee |-> t.resort_fee,
                                   rooms |-> [r \in {"1kn"} |->
                                                [count |-> 1, price |-> t.room_price]]]]],
     current_day |-> JobStart + t.stay_length]

\* The call generate_transaction(self, 1, 1, stay_length, "1kn") returns.
TxnCall ==
    /\ txn.pc = "call"
    /\ txn' = [txn EXCEPT !.pc = "done",
                          !.result = generate_transaction(txn_state(txn), 1, 1,
                                                          txn.stay_length, "1kn")]
    /\ UNCHANGED <<runVars, alloc, gen, db>>

TxnInit ==
    /\ state = NewState
    /\ pc = "idle"
    /\ caller = ""
    /\ p4_left = 0
    /\ day = NoDay
    /\ error = ""
    /\ completed = {}
    /\ ckpt = <<>>
    /\ run = [end |-> 0, customers |-> 0, checkpoints |-> FALSE, input |-> ""]
    /\ alloc = NoAlloc
    /\ gen = NoGen
    /\ db = NoDb
    /\ txn \in [pc : {"call"}, room_price : TxnPrices, resort_fee : TxnFees,
                stay_length : 1..MaxNights, state : StateCodes \cup {"ZZ"},
                result : {<<>>}]

TxnNext == TxnCall

TxnSpec == TxnInit /\ [][TxnNext]_simVars

\* --------------------------------------------- generate_hotel, the rooms
\* rand() returns a float: the room count is kept in halves of a room, from
\* the clamp's minimum (1 room) to its maximum (MaxRooms rooms).
RoomHalves == 2
room_counts == RoomHalves .. (RoomHalves * MaxRooms)

room_sum(d) == SumOver(d, DOMAIN d)

\* int(round(prob * room_count)) per room type.
room_baseline(room_count, prob) ==
    [rt \in RoomTypes |-> RoundHalfEven(prob[rt] * room_count, ProbGrid * RoomHalves)]

\* The room count and the shares are drawn; the baseline is computed.
HotelRooms ==
    /\ gen.pc = "call"
    /\ gen' = [gen EXCEPT !.pc = "add",
                          !.room_distribution = room_baseline(gen.room_count, gen.prob)]
    /\ UNCHANGED <<runVars, alloc, txn, db>>

\* while sum < room_count: a random room type gains one.
HotelAdd ==
    /\ gen.pc = "add"
    /\ RoomHalves * room_sum(gen.room_distribution) < gen.room_count
    /\ \E rt \in RoomTypes :
          gen' = [gen EXCEPT !.room_distribution[rt] = @ + 1, !.pick = <<rt>>]
    /\ UNCHANGED <<runVars, alloc, txn, db>>

HotelAddEnd ==
    /\ gen.pc = "add"
    /\ RoomHalves * room_sum(gen.room_distribution) >= gen.room_count
    /\ gen' = [gen EXCEPT !.pc = "sub", !.pick = <<>>]
    /\ UNCHANGED <<runVars, alloc, txn, db>>

\* while sum > room_count: a random room type with rooms loses one.
HotelSub ==
    /\ gen.pc = "sub"
    /\ RoomHalves * room_sum(gen.room_distribution) > gen.room_count
    /\ \E rt \in {x \in RoomTypes : gen.room_distribution[x] > 0} :
          gen' = [gen EXCEPT !.room_distribution[rt] = @ - 1, !.pick = <<rt>>]
    /\ UNCHANGED <<runVars, alloc, txn, db>>

\* The choice fell on a room type without rooms: only the choice changes.
HotelSubMiss ==
    /\ gen.pc = "sub"
    /\ RoomHalves * room_sum(gen.room_distribution) > gen.room_count
    /\ \E rt \in {x \in RoomTypes : gen.room_distribution[x] <= 0} :
          gen' = [gen EXCEPT !.pick = <<rt>>]
    /\ UNCHANGED <<runVars, alloc, txn, db>>

\* The hotel's rooms are the distribution the loops left.
HotelSubEnd ==
    /\ gen.pc = "sub"
    /\ RoomHalves * room_sum(gen.room_distribution) <= gen.room_count
    /\ gen' = [gen EXCEPT !.pc = "done", !.pick = <<>>]
    /\ UNCHANGED <<runVars, alloc, txn, db>>

\* A call generate_hotel(hotel_type) at its room assignment.
HotelInit ==
    /\ state = NewState
    /\ pc = "idle"
    /\ caller = ""
    /\ p4_left = 0
    /\ day = NoDay
    /\ error = ""
    /\ completed = {}
    /\ ckpt = <<>>
    /\ run = [end |-> 0, customers |-> 0, checkpoints |-> FALSE, input |-> ""]
    /\ alloc = NoAlloc
    /\ txn = NoTxn
    /\ db = NoDb
    /\ gen \in [pc : {"call"}, room_count : room_counts,
                prob : [RoomTypes -> 0..ProbGrid],
                room_distribution : {[rt \in RoomTypes |-> 0]}, pick : {<<>>}]

HotelNext ==
    \/ HotelRooms
    \/ HotelAdd
    \/ HotelAddEnd
    \/ HotelSub
    \/ HotelSubMiss
    \/ HotelSubEnd

HotelSpec == HotelInit /\ [][HotelNext]_simVars

\* ------------------------------------------------------ database loaders
\* loaders.LOADERS, by the key each loader has in load_state.
Loaders == <<"mssql", "mongodb">>
LoaderNames == Range(Loaders)

\* db.check_should_run(state) as a string: "True" or "False" when the method
\* returns, "AttributeError" when the loader class defines no such method (the
\* loader class of mssql.py defines none).
check_should_run(l, st) ==
    IF l = "mongodb"
    THEN IF Get(Get(st, "load_state", <<>>), "mongodb", 0) = 0 THEN "True" ELSE "False"
    ELSE "AttributeError"

\* The state keys load_data reads with state[...].
load_data_keys(l) ==
    IF l = "mongodb" THEN {"giftshops", "products", "cache", "retail_transactions"}
    ELSE {"hotels", "customers", "events", "transactions"}

\* What load_data leaves in the state once its inserts are done.
load_data(l, st) ==
    IF l = "mongodb"
    THEN Put(st, "load_state", Put(Get(st, "load_state", <<>>), "mongodb", 1))
    ELSE st

\* db.load_data(state) for one loader.
LoadData(l) ==
    /\ db.loads[l] < MaxLoads
    /\ IF load_data_keys(l) \subseteq DOMAIN state
       THEN /\ state' = load_data(l, state)
            /\ db' = [db EXCEPT !.loads[l] = @ + 1]
            /\ UNCHANGED <<pc, error>>
       ELSE /\ pc' = "aborted" /\ error' = "KeyError"
            /\ UNCHANGED <<state, db>>

\* main's load step for one loader: it loads if check_should_run says so and
\* reports the database as already loaded otherwise.
LoaderStep(l) ==
    /\ pc = "idle" /\ db.pc = "ready"
    /\ UNCHANGED <<caller, p4_left, day, completed, ckpt, run, alloc, txn, gen>>
    /\ LET should_run == check_should_run(l, state)
       IN  IF should_run = "AttributeError"
           THEN /\ pc' = "aborted" /\ error' = "AttributeError"
                /\ UNCHANGED <<state, db>>
           ELSE IF should_run = "True"
           THEN LoadData(l)
           ELSE /\ db.skips[l] < MaxLoads
                /\ db' = [db EXCEPT !.skips[l] = @ + 1]
                /\ UNCHANGED <<state, pc, error>>

\* load_data called on the state directly.
LoaderLoad(l) ==
    /\ pc = "idle" /\ db.pc = "ready"
    /\ UNCHANGED <<caller, p4_left, day, completed, ckpt, run, alloc, txn, gen>>
    /\ LoadData(l)

\* The states handed to the load step: a finished state with or without
\* retail data and history.
LoadStates ==
    {[k \in {"hotels", "customers", "events", "transactions", "gen_params",
             "last_phase"} \cup retail |->
        IF k = "last_phase" THEN 5
        ELSE IF k = "gen_params" THEN <<>>
        ELSE IF k = "cache" THEN [retail_customers_by_id |-> <<>>]
        ELSE [i \in 1..n |-> [id |-> i]]] :
        retail \in {{}, {"giftshops", "products", "cache", "retail_transactions"}},
        n \in 0..2}

LoadInit ==
    /\ state \in LoadStates
    /\ pc = "idle"
    /\ caller = ""
    /\ p4_left = 0
    /\ day = NoDay
    /\ error = ""
    /\ completed = {}
    /\ ckpt = <<>>
    /\ run = [end |-> 0, customers |-> 0, checkpoints |-> FALSE, input |-> ""]
    /\ alloc = NoAlloc
    /\ txn = NoTxn
    /\ gen = NoGen
    /\ db = [pc |-> "ready", loads |-> [l \in LoaderNames |-> 0],
             skips |-> [l \in LoaderNames |-> 0]]

LoadNext ==
    \/ \E l \in LoaderNames : LoaderStep(l)
    \/ \E l \in LoaderNames : LoaderLoad(l)

LoadSpec == LoadInit /\ [][LoadNext]_simVars

\* ================================================================ claims
\* The active bookings, as <<hotel id, room type, booking>>.
active_bookings ==
    IF ~Has(state, "occupied_rooms") THEN {}
    ELSE {<<t[1], t[2], state.occupied_rooms[t[1]][t[2]][t[3]]>> :
            t \in {u \in (DOMAIN state.occupied_rooms) \X RoomTypes \X (1..(MaxCustomers + 2)) :
                     /\ u[2] \in DOMAIN state.occupied_rooms[u[1]]
                     /\ u[3] \in DOMAIN state.occupied_rooms[u[1]][u[2]]}}

between_days == pc \in {"idle", "phase4"}

\* C1: after any number of process_day calls following phase 3, every hotel's
\* every room type holds at most as many active bookings as it has rooms.
C1_RoomsWithinCount ==
    (last_phase(state) >= 3 /\ Has(state, "occupied_rooms")) =>
        \A h \in DOMAIN state.occupied_rooms :
            \A rt \in DOMAIN state.occupied_rooms[h] :
                Len(state.occupied_rooms[h][rt]) <= state.cache.hotels_by_id[h].rooms[rt].count

\* C1's case: a day has been processed and left a hotel with a room type that
\* is full next to another booking of the same hotel.
C1_Witness ==
    /\ between_days
    /\ Get(state, "current_day_num", 0) >= 1
    /\ Has(state, "occupied_rooms")
    /\ \E h \in DOMAIN state.occupied_rooms :
         \E rt, other \in DOMAIN state.occupied_rooms[h] :
            /\ rt # other
            /\ state.cache.hotels_by_id[h].rooms[rt].count > 0
            /\ Len(state.occupied_rooms[h][rt]) = state.cache.hotels_by_id[h].rooms[rt].count
            /\ Len(state.occupied_rooms[h][other]) > 0

\* C2: between process_day calls no customer id is in two active bookings.
C2_OneBookingPerCustomer ==
    between_days =>
        \A x, y \in active_bookings : x[3][1] = y[3][1] => x = y

\* C2's case: between calls a customer who has stayed and checked out before
\* holds a booking again.
C2_Witness ==
    /\ between_days
    /\ \E x \in active_bookings :
         \E i \in DOMAIN state.events :
            /\ state.events[i].event = "checkout"
            /\ state.events[i].customer_id = x[3][1]

\* The day of the check-in that created the booking: the last checkin event
\* of the booking's customer.
checkin_event_of(b) ==
    LET idx == {i \in DOMAIN state.events :
                  /\ state.events[i].event = "checkin"
                  /\ state.events[i].customer_id = b[1]}
    IN  state.events[CHOOSE i \in idx : \A j \in idx : j <= i]

\* C3: a booking made on day d for n nights records d + n as its checkout
\* day, and the sweep emits no checkout event dated before the checkout date
\* its check-in announced.
C3_CheckoutOnScheduledDay ==
    /\ \A x \in active_bookings :
          get_datetime_by_day_num(x[3][2]) = checkin_event_of(x[3]).checkin_date + x[3][3]
    /\ \A j \in DOMAIN state.events :
          state.events[j].event = "checkout" =>
              \A i \in 1..(j - 1) :
                  (/\ state.events[i].event = "checkin"
                   /\ state.events[i].customer_id = state.events[j].customer_id
                   /\ \A k \in (i + 1)..(j - 1) :
                         state.events[k].customer_id # state.events[j].customer_id)
                  => state.events[j].checkout_date >= state.events[i].checkout_date

\* C4: while process_day serves the hotels, no customer with an active
\* booking is in the candidate pool.
C4_PoolHasNoBookedCustomer ==
    pc = "pop" => day.pool \cap {x[3][1] : x \in active_bookings} = {}

\* C4's case: the loop is about to serve a hotel from a non-empty pool after
\* a check-in of the same call at another hotel.
C4_Witness ==
    /\ pc = "pop"
    /\ day.pool # {}
    /\ day.checkin_count >= 1
    /\ \E x \in active_bookings : x[1] # state.hotels[day.hidx].id

\* C5: the distribution generate_state_distribution returns has no negative
\* count and sums to the count asked for.
C5_CountsSumToTotal ==
    alloc.pc = "done" =>
        /\ \A st \in AllocStates : alloc.distribution[st] >= 0
        /\ distribution_sum(alloc.distribution) = alloc.count

\* C5's case: a call with sd > 0 whose baseline overshot, so that the
\* subtraction loop ran, and with reassignments, has returned.
C5_Witness ==
    /\ alloc.pc = "done"
    /\ alloc.sd_positive
    /\ alloc.count >= 1
    /\ alloc.reassignments >= 1
    /\ distribution_sum(alloc.baseline) > alloc.count
    /\ alloc.distribution # alloc.baseline

\* C6: every call of the allocator returns.
C6_AllocatorTerminates == <>(alloc.pc = "done")

\* C7: a phase invoked again after it has completed changes nothing.
C7_CompletedPhaseIsNoOp ==
    [][/\ (0 \in completed /\ Phase0) => UNCHANGED state
       /\ (1 \in completed /\ Phase1) => UNCHANGED state
       /\ (2 \in completed /\ Phase2) => UNCHANGED state
       /\ (3 \in completed /\ Phase3) => UNCHANGED state
       /\ (4 \in completed /\ Phase4) => UNCHANGED <<state, pc>>
       /\ (5 \in completed /\ Phase5) => UNCHANGED state]_simVars

\* C8: phase 3 invoked with the marker below 2 builds no cache and no ledger
\* and does not set the marker to 3.
C8_Phase3NeedsPhase2 ==
    [][(last_phase(state) < 2 /\ Phase3) =>
          /\ last_phase(state') # 3
          /\ Has(state', "cache") = Has(state, "cache")
          /\ Has(state', "occupied_rooms") = Has(state, "occupied_rooms")
          /\ Has(state', "occupied_customers") = Has(state, "occupied_customers")]_simVars

has_luxury_item(t) ==
    \E i \in DOMAIN t.line_items : t.line_items[i].description = "Luxury Tax"

C11_LuxuryGatePerNight ==
    (/\ txn.pc = "done"
     /\ txn.resort_fee = 0
     /\ txn.room_price <= 10000)
    => ~has_luxury_item(txn.result)

checkins_today(st, hotel_id) ==
    Cardinality({i \in DOMAIN st.events :
                    /\ st.events[i].event = "checkin"
                    /\ st.events[i].property_id = hotel_id
                    /\ st.events[i].checkin_date = st.current_day})

\* The hotel's bookings once the checkout sweep of the current day was over.
occupied_after_sweep(st, hotel_id) ==
    currently_checked_in(st, hotel_id) - checkins_today(st, hotel_id)

cooling_customers(st) ==
    {st.occupied_customers[ct][i][1] :
        <<ct, i>> \in {t \in (DOMAIN st.occupied_customers) \X (1..2 * MaxCustomers) :
                          /\ t[2] \in DOMAIN st.occupied_customers[t[1]]
                          /\ st.occupied_customers[t[1]][t[2]][3] > st.current_day}}

\* C14: process_day never checks in a customer who has a cooldown entry whose
\* unavailable-until date is later than the current day: the customer of every
\* check-in event a turn of the check-in loop appends had no such entry.
C14_NoCheckinDuringCooldown ==
    [][(/\ pc = "pop"
        /\ Len(state'.events) > Len(state.events)
        /\ state'.events[Len(state'.events)].event = "checkin")
       => state'.events[Len(state'.events)].customer_id \notin cooling_customers(state)]_simVars

\* On a later day a customer is still in cooldown from an earlier stay while
\* another customer has been checked in.
C14_Witness ==
    /\ Has(state, "current_day_num") /\ state.current_day_num >= 2
    /\ \E i, j \in DOMAIN state.events :
          /\ state.events[i].event = "checkin"
          /\ state.events[i].checkin_date < state.current_day
          /\ state.events[i].customer_id \in cooling_customers(state)
          /\ state.events[j].event = "checkin"
          /\ state.events[j].checkin_date = state.current_day
          /\ state.events[j].customer_id # state.events[i].customer_id


\* C15: for every generated hotel the per-room-type counts are non-negative
\* integers whose sum equals the total room count sampled for that hotel.
C15_RoomCountsSumToTotal ==
    gen.pc = "done" =>
        /\ \A rt \in RoomTypes : gen.room_distribution[rt] >= 0
        /\ RoomHalves * room_sum(gen.room_distribution) = gen.room_count


\* The checkout events of a state, in the order they were appended.
checkout_events(st) == SelectSeq(st.events, LAMBDA e : e.event = "checkout")

\* The active bookings of a state, as <<hotel id, room type, booking>>.
bookings_of(st) ==
    IF ~Has(st, "occupied_rooms") THEN {}
    ELSE {<<t[1], t[2], st.occupied_rooms[t[1]][t[2]][t[3]]>> :
            t \in {u \in (DOMAIN st.occupied_rooms) \X RoomTypes \X (1..(MaxCustomers + 2)) :
                     /\ u[2] \in DOMAIN st.occupied_rooms[u[1]]
                     /\ u[3] \in DOMAIN st.occupied_rooms[u[1]][u[2]]}}

C17_EarlyCheckoutRefused ==
    [][\A g \in bookings_of(state) :
          (/\ state.current_day < get_datetime_by_day_num(g[3][2]) + g[3][3]
           /\ CheckoutCall(g[1], g[3], FALSE))
          => /\ g \in bookings_of(state')
             /\ state'.events = state.events
             /\ state'.transactions = state.transactions]_simVars


\* C18: for every database loader listed in LOADERS, check_should_run(state)
\* is true before that loader has loaded the state and false after its
\* load_data(state) has completed, so that a second load step on the same
\* state skips that loader.
C18_LoaderSkipsAfterLoad ==
    db.pc = "ready" =>
        \A l \in LoaderNames :
            check_should_run(l, state) = (IF db.loads[l] = 0 THEN "True" ELSE "False")


\* C19: phase 4 calls process_day exactly as many times as days_left held on
\* entry and decrements days_left after each call: after every completed day
\* current_day_num + days_left equals the number of days fixed by phase 3,
\* the turns the loop has left are days_left, and when phase 4 has set the
\* marker to 4, days_left is 0 and as many days were simulated as phase 3 fixed.
C19_Phase4CountsDays ==
    (Has(state, "days_left") /\ pc \in {"idle", "phase4"}) =>
        /\ Get(state, "current_day_num", 0) + state.days_left = JobEndOffset - JobStart + 1
        /\ pc = "phase4" => p4_left = state.days_left
        /\ last_phase(state) >= 4 =>
              /\ state.days_left = 0
              /\ Get(state, "current_day_num", 0) = JobEndOffset - JobStart + 1

\* Phase 4 has run its two days and set the marker.
C19_Witness ==
    /\ last_phase(state) = 4 /\ pc = "idle"
    /\ JobEndOffset = 1
    /\ state.days_left = 0 /\ state.current_day_num = 2
    /\ Len(state.events) >= 1


\* The events of a kind appended on a day.
events_on(st, kind, date) ==
    Cardinality({i \in DOMAIN st.events :
                    /\ st.events[i].event = kind
                    /\ (IF kind = "checkin" THEN st.events[i].checkin_date
                                            ELSE st.events[i].checkout_date) = date})

\* C20: every process_day call that advances the day appends exactly one
\* day-summary to day_log, whose checkins and checkouts equal the numbers of
\* checkin and checkout events appended during that call; between calls, and
\* so after phase 4, day_log holds one entry per simulated day with
\* consecutive day numbers.
C20_OneSummaryPerDay ==
    (pc \in {"idle", "phase4"} /\ Has(state, "current_day_num")) =>
        LET day_log == Get(state, "day_log", <<>>)
        IN  /\ Len(day_log) = state.current_day_num
            /\ \A i \in DOMAIN day_log :
                  /\ day_log[i].day_num = i
                  /\ day_log[i].checkins = events_on(state, "checkin", day_log[i].date)
                  /\ day_log[i].checkouts = events_on(state, "checkout", day_log[i].date)


\* The rooms of all hotels.
all_rooms(st) ==
    SumSeq([i \in DOMAIN st.hotels |-> total_rooms_of(st.hotels[i])])

\* C21: the occupancy recorded in a day-summary is the occupancy achieved
\* that day, rooms occupied after the day's check-ins divided by total
\* rooms, also when too few eligible customers exist to reach the target:
\* at the end of a call the entry of the current day, a fraction of
\* 2 * OccupancyGrid, times the total rooms is the number of active bookings.
C21_SummaryHoldsAchievedOccupancy ==
    (/\ pc \in {"idle", "phase4"}
     /\ Has(state, "day_log") /\ Has(state, "current_day_num")
     /\ Len(state.day_log) >= 1
     /\ state.day_log[Len(state.day_log)].day_num = state.current_day_num)
    => state.day_log[Len(state.day_log)].occupancy * all_rooms(state)
          = 2 * OccupancyGrid * Cardinality(bookings_of(state))


\* C22: the transaction created by the daily checkout sweep bills exactly the
\* booking's stay length: for every booking a step checks out, the room
\* charge line of the transaction appended for its customer and hotel has
\* the stay length drawn at check-in as its quantity.
C22_BillsStayLength ==
    [][\A g \in bookings_of(state) \ bookings_of(state') :
          \A k \in (Len(state.transactions) + 1)..Len(state'.transactions) :
             (/\ state'.transactions[k].hotel_id = g[1]
              /\ state'.transactions[k].customer_id = g[3][1])
             => state'.transactions[k].line_items[1].quantity = g[3][3]]_simVars


\* C23: the per-archetype check-in quotas get_customer_distribution computes
\* for a day are non-negative integers that sum exactly to the total number
\* of customers needed that day, the sum of all hotels' desired occupancy:
\* so are all the quotas the call of the day being simulated can return.
C23_QuotasSumToNeeded ==
    pc = "pop" =>
        LET total_customers_needed == SumOver(day.desired, DOMAIN day.desired)
        IN  \A customer_counts \in get_customer_distribution(total_customers_needed) :
               /\ \A ct \in Archetypes : customer_counts[ct] >= 0
               /\ SumOver(customer_counts, Archetypes) = total_customers_needed


\* The customers of an archetype in a pool.
pool_of_type(st, pool, ct) ==
    {c \in pool : st.cache.customers_by_id[c].type = ct}

\* The number drawn under the rule as stated: the quota when the eligible
\* customers are at least the quota, 20% of them (rounded) when they are fewer.
draw_count_stated(n_eligible, quota) ==
    IF n_eligible >= quota THEN quota ELSE RoundHalfEven(n_eligible * 2, 10)

\* C24: for each archetype in a process_day call, when the eligible pool is
\* at least as large as the quota exactly quota customers are drawn, the
\* quota is shrunk to 20% of the pool size only when the pool is smaller
\* than the quota, and the draw never fails: the pool a call starts its
\* check-in loop with holds, per archetype, that number of customers for
\* quotas get_customer_distribution can return, and no call ends in the
\* draw's ValueError.
C24_DrawsQuota ==
    [][/\ (pc # "pop" /\ pc' = "pop") =>
            \E customer_counts \in
                  get_customer_distribution(SumOver(day'.desired, DOMAIN day'.desired)) :
               \A ct \in Archetypes :
                  Cardinality(pool_of_type(state', day'.pool, ct))
                     = draw_count_stated(Cardinality(eligible_customers(state', ct)),
                                         customer_counts[ct])
       /\ error' = "ValueError" => error = "ValueError"]_simVars


\* C25: each successful check-in appends exactly one booking to the chosen
\* (hotel, room type) queue, one cooldown entry for that customer dated
\* check-in date + stay length + the archetype's minimum gap days, and one
\* checkin event; it leaves the transactions list and every other booking
\* and cooldown entry unchanged.
C25_CheckinFrame ==
    [][(pc = "pop" /\ state'.events # state.events) =>
         LET e == state'.events[Len(state'.events)]
             stay_length == e.checkout_date - e.checkin_date
             ctype == state.cache.customers_by_id[e.customer_id].type
         IN  /\ state'.events = Append(state.events, e)
             /\ e.event = "checkin"
             /\ e.checkin_date = state.current_day
             /\ state'.occupied_rooms =
                   [state.occupied_rooms EXCEPT ![e.property_id][e.room_type] =
                       Append(@, <<e.customer_id, state.current_day_num,
                                   stay_length, e.room_type>>)]
             /\ state'.occupied_customers =
                   [state.occupied_customers EXCEPT ![ctype] =
                       Append(@, <<e.customer_id, e.property_id,
                                   e.checkin_date + stay_length
                                      + customer_archetypes[ctype].min_gap_days>>)]
             /\ state'.transactions = state.transactions]_simVars

\* A second customer has just been checked in: a booking and a cooldown
\* entry of another customer were there before.
C25_Witness ==
    /\ Len(state.events) >= 2
    /\ LET e == state.events[Len(state.events)]
       IN  /\ e.event = "checkin"
           /\ \E g \in bookings_of(state) : g[3][1] # e.customer_id
           /\ \E g \in bookings_of(state) : g[3][1] = e.customer_id
           /\ \E ct \in Archetypes :
                 \E i \in DOMAIN state.occupied_customers[ct] :
                    state.occupied_customers[ct][i][1] # e.customer_id

\* C26: process_day invoked while the last-completed-phase marker is below 3
\* changes nothing in the simulation state: the day pointer does not advance
\* and no event, booking, cooldown, transaction or day-summary is added.
C26_RefusedBeforePhase3 ==
    [][(last_phase(state) < 3 /\ ApiProcessDay)
       => /\ state' = state
          /\ pc' = "idle"]_simVars

\* Phases 0 to 2 are done, phase 3 is not: process_day is called on a state
\* with hotels and customers and no day pointer, and returns on it.
C26_Witness ==
    /\ pc = "idle" /\ last_phase(state) = 2
    /\ Len(state.hotels) >= 1 /\ Len(state.customers) >= 1
    /\ ~Has(state, "current_day_num") /\ ~Has(state, "day_log")
    /\ state.events = <<>> /\ state.transactions = <<>>


\* C27: every simulated day lies inside the configured date range: the first
\* process_day call simulates the start date, the last one the end date, and
\* every day-summary date, checkin event date and checkout event date d
\* satisfies start <= d <= end.
C27_DaysWithinRange ==
    LET in_range(d) == JobStart <= d /\ d <= JobEndOffset
    IN  /\ (Has(state, "current_day_num") /\ state.current_day_num = 1)
              => state.current_day = JobStart
        /\ last_phase(state) >= 4 => state.current_day = JobEndOffset
        /\ \A i \in DOMAIN Get(state, "day_log", <<>>) : in_range(state.day_log[i].date)
        /\ \A i \in DOMAIN state.events :
              IF state.events[i].event = "checkin"
              THEN in_range(state.events[i].checkin_date)
              ELSE in_range(state.events[i].checkout_date)


\* C28: every transaction's check-in date equals the date of the checkin
\* event of the stay it bills, and its check-out date equals the date of that
\* stay's checkout event: for every booking a step checks out, the
\* transaction appended for it carries the date the booking was checked in
\* on, which its checkin event holds, and the date of the checkout event
\* appended with it.
C28_TransactionDates ==
    [][\A g \in bookings_of(state) \ bookings_of(state') :
          \A k \in (Len(state.transactions) + 1)..Len(state'.transactions) :
             (/\ state'.transactions[k].hotel_id = g[1]
              /\ state'.transactions[k].customer_id = g[3][1])
             => /\ \E i \in DOMAIN state.events :
                      /\ state.events[i].event = "checkin"
                      /\ state.events[i].customer_id = g[3][1]
                      /\ state.events[i].property_id = g[1]
                      /\ state.events[i].checkin_date = get_datetime_by_day_num(g[3][2])
                      /\ state'.transactions[k].check_in_date = state.events[i].checkin_date
                /\ state'.transactions[k].check_out_date
                      = checkout_events(state')[k].checkout_date]_simVars


\* C30: a checkpoint written by export after a completed phase can be
\* resumed: main started with --input on any checkpoint file of the run
\* accepts it, the imported state carrying a data version of at least 1, and
\* stands at the file's marker; the phases up to that marker then leave the
\* resumed state as it is.
C30_CheckpointResumable ==
    [][/\ \A i \in DOMAIN ckpt :
             ImportPkl(i) =>
                /\ pc' = "idle"
                /\ Get(state', "data_version", 0) >= 1
                /\ last_phase(state') = last_phase(import_pkl(ckpt[i]).state)
       /\ (/\ run.input # ""
           /\ pc = "idle"
           /\ last_phase(state) >= 3
           /\ Phase0 \/ Phase1 \/ Phase2 \/ Phase3)
          => state' = state]_simVars


\* C29: at every point after phase 3 the number of active bookings at any
\* hotel is at most round(0.5 x the hotel's total room count).
C29_BookingsWithinHalf ==
    (last_phase(state) >= 3 /\ Has(state, "occupied_rooms")) =>
        \A i \in DOMAIN state.hotels :
            currently_checked_in(state, state.hotels[i].id)
                <= RoundHalfEven(total_rooms_of(state.hotels[i]), 2)

\* C29's case: on a day whose occupancy is at the top of the clamp's range
\* four customers have been checked in and both hotels are filled to half
\* their rooms.
C29_Witness ==
    /\ last_phase(state) >= 3
    /\ Has(state, "occupied_rooms")
    /\ Len(state.hotels) = 2
    /\ Len(state.events) = 4
    /\ \A i \in DOMAIN state.hotels :
          /\ total_rooms_of(state.hotels[i]) = 4
          /\ currently_checked_in(state, state.hotels[i].id) = 2

====
